---- MODULE Spec2Model ----
(***************************************************************************)
(* A model of yabgp's BGP protocol handler (yabgp/core/protocol.py) and of *)
(* the running configuration it shares (yabgp/config.py).                  *)
(*                                                                         *)
(* The receive path is modelled at the byte level: the peer puts whole     *)
(* messages on the wire, the transport delivers them to dataReceived in    *)
(* arbitrary chunks, and every call of parse_buffer is one step.           *)
(* The FSM and the message codecs are not part of protocol.py; they are    *)
(* modelled from the design document (sections 4.1, 4.4 and 6).            *)
(***************************************************************************)
EXTENDS Integers, Sequences, FiniteSets, TLC

\* ---------------------------------------------------------------- bounds
\* Messages the peer puts on the wire in one behaviour (all sessions).
MaxMsgs == 2
\* Connections (BGP protocol instances) built for the peer in one behaviour.
MaxSessions == 2
\* Entries of the per-session observation log; stops a non-terminating drain.
MaxLog == 18
\* Updates the application sends in one session.
MaxSends == 1

\* ------------------------------------------------- constants (bgp_cons)
HDR_LEN == 19
MAX_LEN == 4096
MSG_OPEN == 1
MSG_UPDATE == 2
MSG_NOTIFICATION == 3
MSG_KEEPALIVE == 4
MSG_ROUTEREFRESH == 5
MSG_CISCOROUTEREFRESH == 128
VERSION == 4

ERR_MSG_HDR_CONN_NOT_SYNC == "connection_not_synchronised"
ERR_MSG_HDR_BAD_MSG_LEN == "bad_message_length"
ERR_MSG_HDR_BAD_MSG_TYPE == "bad_message_type"
ERR_MSG_OPEN_UNSUP_VERSION == "unsupported_version"
ERR_MSG_OPEN_BAD_PEER_AS == "bad_peer_as"
ERR_MSG_OPEN_UNACCPT_HOLD_TIME == "unacceptable_hold_time"
ERR_MSG_OPEN_MALFORMED == "malformed_open"

\* ---------------------------------------------------------- byte helpers
Min(a, b) == IF a < b THEN a ELSE b

\* struct.pack('!H', n)
Pack2(n) == <<(n \div 256) % 256, n % 256>>

\* struct.unpack('!H', two bytes)
Unpack2(hi, lo) == hi * 256 + lo

\* Python's buf[i:j] (0-based, end exclusive, clamped to the buffer)
Slice(buf, i, j) == SubSeq(buf, i + 1, Min(j, Len(buf)))

\* Python's buf[i:]
SliceFrom(buf, i) == SubSeq(buf, i + 1, Len(buf))

Marker == [i \in 1..16 |-> 255]

\* ------------------------------------------------------- configuration
\* The seven keys get_bgp_config puts under capability.local.
ConfiguredLocal ==
    {"four_bytes_as", "route_refresh", "cisco_route_refresh",
     "enhanced_route_refresh", "graceful_restart", "cisco_multi_session",
     "add_path"}

\* capability record written by get_bgp_config
ConfiguredCapability == [local |-> ConfiguredLocal, remote |-> {}]

\* CONF.bgp.remote_as of the single configured peer
PeerAs == 100

\* hold times the FSM may be configured with
LocalHoldTimes == {0, 4, 180}

\* -------------------------------------------- capability codes on the wire
CapCodes == {1, 2, 64, 65, 69, 70, 128, 131}

CapName(code) ==
    CASE code = 1 -> "afi_safi"
      [] code = 2 -> "route_refresh"
      [] code = 64 -> "graceful_restart"
      [] code = 65 -> "four_bytes_as"
      [] code = 69 -> "add_path"
      [] code = 70 -> "enhanced_route_refresh"
      [] code = 128 -> "cisco_route_refresh"
      [] code = 131 -> "cisco_multi_session"
      [] OTHER -> "unknown"

\* ------------------------------------------------------ peer's messages
Header(length, type) == Marker \o Pack2(length) \o <<type>>

OpenMsg(version, asn, hold, caps) ==
    Header(HDR_LEN + 10 + Len(caps), MSG_OPEN)
        \o <<version>> \o Pack2(asn) \o Pack2(hold) \o <<10, 0, 0, 1>>
        \o <<Len(caps)>> \o caps

AllCaps == <<65, 2, 128, 70, 64, 131, 69>>
SomeCaps == <<65, 2, 128, 70, 64, 1>>

KeepAliveMsg == Header(HDR_LEN, MSG_KEEPALIVE)

\* What the peer may send in the frame-reader specification: well-formed
\* messages, malformed headers and messages their handler rejects.
PeerMessages ==
    { KeepAliveMsg,
      OpenMsg(VERSION, PeerAs, 90, SomeCaps),
      Header(HDR_LEN + 4, MSG_UPDATE) \o <<0, 0, 0, 0>>,
      Header(HDR_LEN, 9),
      Header(HDR_LEN + 1, MSG_KEEPALIVE) \o <<0>>,
      [i \in 1..19 |-> IF i = 16 THEN 0 ELSE KeepAliveMsg[i]],
      Header(0, MSG_KEEPALIVE),
      Header(MAX_LEN, MSG_UPDATE),
      Header(MAX_LEN + 1, MSG_KEEPALIVE) }

UpdateMsg(attrs, nlri) ==
    Header(HDR_LEN + 4 + Len(attrs) + Len(nlri), MSG_UPDATE)
        \o <<0, 0>> \o Pack2(Len(attrs)) \o attrs \o nlri

NotificationMsg(error, suberror) ==
    Header(HDR_LEN + 2, MSG_NOTIFICATION) \o <<error, suberror>>

RouteRefreshMsg(type) == Header(HDR_LEN + 4, type) \o <<0, 1, 0, 1>>

\* What the peer may send in the Open-exchange specification.
OpenMessages ==
    { KeepAliveMsg,
      OpenMsg(VERSION, PeerAs, 90, SomeCaps),
      OpenMsg(VERSION, PeerAs, 3, AllCaps),
      OpenMsg(VERSION, PeerAs, 2, SomeCaps),
      OpenMsg(VERSION, PeerAs, 0, <<>>),
      OpenMsg(VERSION, PeerAs + 1, 90, <<65>>) }

\* What the peer may send in the established-session specification: an
\* Update with an AS_PATH attribute and one prefix, an Update whose single
\* path attribute is malformed, a KeepAlive, a RouteRefresh, a Notification
\* and a further Open.
EstMessages ==
    { UpdateMsg(<<2>>, <<10>>),
      UpdateMsg(<<0>>, <<10>>),
      KeepAliveMsg,
      RouteRefreshMsg(MSG_ROUTEREFRESH),
      NotificationMsg(6, 2),
      OpenMsg(VERSION, PeerAs, 90, <<2>>) }

\* What the peer may send in the internal-fault specification: messages
\* whose body is too short for the decoder to unpack, and valid ones.
FaultMessages ==
    { KeepAliveMsg,
      OpenMsg(VERSION, PeerAs, 90, SomeCaps),
      Header(HDR_LEN + 1, MSG_NOTIFICATION) \o <<6>>,
      Header(HDR_LEN + 2, MSG_ROUTEREFRESH) \o <<0, 1>> }

\* ------------------------------------------------------------- state
VARIABLES
    CONF,            \* oslo.config values that never change: standalone,
                     \* message.write_keepalive, the configured hold time
    running_config,  \* cfg.CONF.bgp.running_config[peer_addr]['capability']
    receive_buffer,  \* BGP.receive_buffer
    fourbytesas,     \* BGP.fourbytesas
    disconnected,    \* BGP.disconnected
    peer_id,         \* BGP.peer_id
    msg_sent_stat,   \* BGP.msg_sent_stat
    msg_recv_stat,   \* BGP.msg_recv_stat
    fsm,             \* the session's FSM: state, hold_time, keep_alive_time
    transport,       \* the TCP transport: connected, disconnecting
    log,             \* observation: handler calls, FSM events, writes, sink calls
    wire,            \* bytes the peer has sent and no read has delivered yet
    pc,              \* "new", "idle", "parsing" (inside dataReceived), "lost"
    npeer,           \* messages the peer has sent so far
    nsessions,       \* protocol instances built so far
    sent             \* the messages the peer has sent on this connection

vars ==
    <<CONF, running_config, receive_buffer, fourbytesas, disconnected, peer_id,
      msg_sent_stat, msg_recv_stat, fsm, transport, log, wire, pc, npeer,
      nsessions, sent>>

\* The session as one record, so that a handler is a function of it.
Cur ==
    [running_config |-> running_config, receive_buffer |-> receive_buffer,
     fourbytesas |-> fourbytesas, disconnected |-> disconnected,
     peer_id |-> peer_id, msg_sent_stat |-> msg_sent_stat,
     msg_recv_stat |-> msg_recv_stat, fsm |-> fsm, transport |-> transport,
     log |-> log]

Commit(s) ==
    /\ running_config' = s.running_config
    /\ receive_buffer' = s.receive_buffer
    /\ fourbytesas' = s.fourbytesas
    /\ disconnected' = s.disconnected
    /\ peer_id' = s.peer_id
    /\ msg_sent_stat' = s.msg_sent_stat
    /\ msg_recv_stat' = s.msg_recv_stat
    /\ fsm' = s.fsm
    /\ transport' = s.transport
    /\ log' = s.log

\* ------------------------------------------------------ observation log
Entry(kind, name, arg, data, length, caps) ==
    [k |-> kind, n |-> name, a |-> arg, d |-> data, len |-> length, c |-> caps]

\* parse_buffer (or send_open) called a method of the protocol
Call(name, length) == Entry("call", name, "", <<>>, length, {})

\* an event delivered to the FSM
FsmEv(name, suberror, data) == Entry("fsm", name, suberror, data, 0, {})

\* transport.write of a constructed message
Wrote(name, suberror, data, caps) == Entry("write", name, suberror, data, 0, caps)

\* LOG.error(e) of an exception caught by parse_buffer's outer try
Logged(exception) == Entry("log_error", exception, "", <<>>, 0, {})

\* a codec call that is given the session's four-octet-AS flag
Codec(name, asn4) ==
    Entry("codec", name, IF asn4 THEN "as4" ELSE "as2", <<>>, 0, {})

\* factory.write_msg / factory.channel.send_message
Sink(kind, name, arg) == Entry(kind, name, arg, <<>>, 0, {})

Note(s, e) == [s EXCEPT !.log = Append(@, e)]

ZeroStat ==
    [Opens |-> 0, Notifications |-> 0, Updates |-> 0, Keepalives |-> 0,
     RouteRefresh |-> 0]

\* ------------------------------------------- message codecs (design 4.1)
\* Open().parse: version, AS, hold time, id, optional parameters. Every
\* optional parameter is abstracted to one octet, its capability code.
OpenParse(msg) ==
    IF Len(msg) < 10 \/ msg[10] # Len(msg) - 10
    THEN [exc |-> "OpenMessageError", sub |-> ERR_MSG_OPEN_MALFORMED,
          asn |-> 0, hold_time |-> 0, bgp_id |-> <<>>, capa_dict |-> {}]
    ELSE IF msg[1] # VERSION
    THEN [exc |-> "OpenMessageError", sub |-> ERR_MSG_OPEN_UNSUP_VERSION,
          asn |-> 0, hold_time |-> 0, bgp_id |-> <<>>, capa_dict |-> {}]
    ELSE [exc |-> "none", sub |-> "",
          asn |-> Unpack2(msg[2], msg[3]),
          hold_time |-> Unpack2(msg[4], msg[5]),
          bgp_id |-> SubSeq(msg, 6, 9),
          capa_dict |-> {CapName(msg[i]) : i \in {j \in 11..Len(msg) : msg[j] \in CapCodes}}]

\* KeepAlive().parse: a KeepAlive has no body beyond the header.
KeepAliveParse(msg) ==
    IF Len(msg) # 0
    THEN [exc |-> "MessageHeaderError", sub |-> ERR_MSG_HDR_BAD_MSG_LEN]
    ELSE [exc |-> "none", sub |-> ""]

\* Notification().parse: two error octets, the rest is data.
NotificationParse(msg) ==
    IF Len(msg) < 2
    THEN [exc |-> "Exception", error |-> 0, suberror |-> 0]
    ELSE [exc |-> "none", error |-> msg[1], suberror |-> msg[2]]

\* RouteRefresh().parse: AFI (2 octets), reserved, SAFI.
RouteRefreshParse(msg) ==
    IF Len(msg) < 4 THEN [exc |-> "Exception"] ELSE [exc |-> "none"]

\* Update().parse: withdrawn routes, path attributes, NLRI. A path attribute
\* is abstracted to one octet, its type code; type code 0 is a malformed
\* attribute. A decode failure is reported in sub_error, never raised.
UpdateParse(msg) ==
    LET bad == [sub_error |-> TRUE, attr |-> {}, nlri |-> <<>>, withdraw |-> <<>>]
    IN  IF Len(msg) < 4 THEN bad
        ELSE LET wl == Unpack2(msg[1], msg[2])
             IN  IF 4 + wl > Len(msg) THEN bad
                 ELSE LET al == Unpack2(msg[3 + wl], msg[4 + wl])
                      IN  IF 4 + wl + al > Len(msg) THEN bad
                          ELSE LET attrs == Slice(msg, 4 + wl, 4 + wl + al)
                               IN  [sub_error |-> \E i \in 1..Len(attrs) : attrs[i] = 0,
                                    attr |-> {attrs[i] : i \in 1..Len(attrs)} \ {0},
                                    nlri |-> SliceFrom(msg, 4 + wl + al),
                                    withdraw |-> Slice(msg, 2, 2 + wl)]

\* --------------------------------------------------- outbound messages
\* a closeConnection that does not remember it closed the transport
closeConnectionNoFlag(s) ==
    IF s.transport.connected
    THEN [s EXCEPT !.transport.disconnecting = TRUE]
    ELSE s

\* BGP.closeConnection
closeConnection(s) ==
    IF s.transport.connected
    THEN [s EXCEPT !.transport.disconnecting = TRUE, !.disconnected = TRUE]
    ELSE s

\* BGP.send_notification (the counter is incremented twice)
send_notification(s, error, sub_error, data) ==
    LET s1 == [s EXCEPT !.msg_sent_stat.Notifications = @ + 1]
        s2 == [s1 EXCEPT !.msg_sent_stat.Notifications = @ + 1]
    IN  Note(s2, Wrote("Notification", sub_error, data, {}))

\* BGP.send_keepalive
send_keepalive(s) ==
    Note([s EXCEPT !.msg_sent_stat.Keepalives = @ + 1],
         Wrote("KeepAlive", "", <<>>, {}))

\* BGP.send_update: Update().construct is given the flag; the message is
\* written and counted.
send_update(s) ==
    LET s1 == Note(s, Codec("Update.construct", s.fourbytesas))
        s2 == Note(s1, Wrote("Update", "", <<>>, {}))
    IN  [s2 EXCEPT !.msg_sent_stat.Updates = @ + 1]

\* ---------------------------------------------------- FSM (design 4.4)
fsm_header_error(s, suberror, data) ==
    LET s1 == Note(s, FsmEv("header_error", suberror, data))
        s2 == send_notification(s1, "HeaderError", suberror, data)
    IN  [s2 EXCEPT !.fsm.state = "Idle"]

fsm_open_message_error(s, suberror) ==
    LET s1 == Note(s, FsmEv("open_message_error", suberror, <<>>))
        s2 == send_notification(s1, "OpenMessageError", suberror, <<>>)
        s3 == closeConnection(s2)
    IN  [s3 EXCEPT !.fsm.state = "Idle"]

fsm_open_received(s) ==
    LET s1 == Note(s, FsmEv("open_received", "", <<>>))
    IN  IF s1.fsm.state = "OpenSent"
        THEN [send_keepalive(s1) EXCEPT !.fsm.state = "OpenConfirm"]
        ELSE s1

fsm_keep_alive_received(s) ==
    LET s1 == Note(s, FsmEv("keep_alive_received", "", <<>>))
    IN  IF s1.fsm.state = "OpenConfirm"
        THEN [s1 EXCEPT !.fsm.state = "Established"]
        ELSE s1

fsm_update_received(s) == Note(s, FsmEv("update_received", "", <<>>))

fsm_notification_received(s, error, suberror) ==
    LET s1 == Note(s, FsmEv("notification_received", "", <<error, suberror>>))
    IN  [closeConnection(s1) EXCEPT !.fsm.state = "Idle"]

fsm_connection_failed(s) ==
    [Note(s, FsmEv("connection_failed", "", <<>>)) EXCEPT !.fsm.state = "Idle"]

\* ------------------------------------------------ capability negotiation
\* The loop of capability_negotiate over the local dict. The dict is changed
\* (pop) while it is iterated: the first key the iteration meets that the
\* remote set lacks is removed, and the iterator's next step raises
\* RuntimeError. The iteration order is the dict's, hence any key may be first.
NegotiateLoop(local, remote) ==
    IF local \ remote = {}
    THEN {[local |-> local, exc |-> "none"]}
    ELSE {[local |-> local \ {capability}, exc |-> "RuntimeError"] :
              capability \in local \ remote}

\* the guard of capability_negotiate: a remote set has been recorded
RemoteRecorded(remote) == remote # {}

\* BGP.capability_negotiate: the set of its possible outcomes
capability_negotiate(s) ==
    LET s1 == Note(s, Call("capability_negotiate", 0))
        cap == s1.running_config
    IN  IF RemoteRecorded(cap.remote)
        THEN {[s |-> [s1 EXCEPT !.running_config.local = o.local], exc |-> o.exc] :
                  o \in NegotiateLoop(cap.local, cap.remote)}
        ELSE {[s |-> s1, exc |-> "none"]}

\* BGP.send_open: the set of its possible outcomes
send_open(s) ==
    {IF o.exc # "none" THEN o
     ELSE [s |-> Note([o.s EXCEPT !.msg_sent_stat.Opens = @ + 1],
                      Wrote("Open", "", <<>>, o.s.running_config.local)),
           exc |-> "none"] :
         o \in capability_negotiate(s)}

\* FSM, transport connected: send Open, move to OpenSent
fsm_connection_made(s) ==
    {IF o.exc # "none" THEN o
     ELSE [s |-> [o.s EXCEPT !.fsm.state = "OpenSent"], exc |-> "none"] :
         o \in send_open(Note(s, FsmEv("connection_made", "", <<>>)))}

\* --------------------------------------------------- hold time
\* min(self.fsm.hold_time, hold_time)
NegotiatedHoldTime(local, remote) == Min(local, remote)

\* a hold-time check that lets 2 seconds through
UnacceptableHoldTimeBelow2(h) == h # 0 /\ h < 2

\* self.fsm.hold_time != 0 and self.fsm.hold_time < 3
UnacceptableHoldTime(h) == h # 0 /\ h < 3

\* BGP.negotiate_hold_time. Both operands of '/' are ints and the module has
\* no 'from __future__ import division': under Python 2, which the sources
\* are written for, the quotient is truncated.
negotiate_hold_time(s, hold_time) ==
    LET s1 == [s EXCEPT !.fsm.hold_time = NegotiatedHoldTime(@, hold_time)]
        s2 == IF UnacceptableHoldTime(s1.fsm.hold_time)
              THEN fsm_open_message_error(s1, ERR_MSG_OPEN_UNACCPT_HOLD_TIME)
              ELSE s1
    IN  [s2 EXCEPT !.fsm.keep_alive_time = s2.fsm.hold_time \div 3]

\* ------------------------------------------------------ message handlers
\* an AS check that only rejects a peer AS below the configured one
PeerAsMismatchBelow(asn) == PeerAs > asn

\* self.fsm.bgp_peering.peer_asn != open_msg.asn
PeerAsMismatch(asn) == PeerAs # asn

\* a flag that is assigned from every accepted Open
FourBytesAsAssigned(flag, capa_dict) == "four_bytes_as" \in capa_dict

\* the loop over the remote keys: 'if key == four_bytes_as: self.fourbytesas = True'
FourBytesAs(flag, capa_dict) ==
    IF "four_bytes_as" \in capa_dict THEN TRUE ELSE flag

\* BGP.open_received
open_received(s, msg) ==
    LET s1 == [s EXCEPT !.msg_recv_stat.Opens = @ + 1]
        open_msg == OpenParse(msg)
    IN  IF open_msg.exc # "none"
        THEN [s |-> s1, exc |-> open_msg.exc, sub |-> open_msg.sub]
        ELSE IF PeerAsMismatch(open_msg.asn)
        THEN [s |-> s1, exc |-> "OpenMessageError", sub |-> ERR_MSG_OPEN_BAD_PEER_AS]
        ELSE LET s2 == [s1 EXCEPT !.running_config.remote = open_msg.capa_dict,
                                  !.fourbytesas = FourBytesAs(@, open_msg.capa_dict)]
                 s3 == Note(s2, Sink("write_msg", "1", "(0,0)"))
                 s4 == [s3 EXCEPT !.peer_id = open_msg.bgp_id]
                 s5 == negotiate_hold_time(s4, open_msg.hold_time)
             IN  [s |-> fsm_open_received(s5), exc |-> "none", sub |-> ""]

\* the address family an Update is classified under
AfiSafi(result) ==
    IF result.nlri # <<>> \/ result.withdraw # <<>> THEN "ipv4"
    ELSE IF result.sub_error THEN "(0,0)"
    ELSE IF 14 \in result.attr THEN "mp_reach"
    ELSE IF 15 \in result.attr THEN "mp_unreach"
    ELSE "(0,0)"

\* an archival type that does not tell a partial result from a clean one
UpdateMsgTypeAlwaysUpdate(result) == "2"

\* msg_type of the write_msg call: 6 for a result with a sub-error, else
\* bgp_cons.MSG_UPDATE
UpdateMsgType(result) == IF result.sub_error THEN "6" ELSE "2"

\* a hand-off that ignores the running mode
PublishesInAnyMode(result, standalone) == ~result.sub_error

\* the message goes to the channel: the else branch (no sub-error) and
\* 'if not CONF.standalone'
Publishes(result, standalone) == ~result.sub_error /\ ~standalone

\* BGP.update_received
update_received(s, msg) ==
    LET s0 == Note(s, Codec("Update.parse", s.fourbytesas))
        result == UpdateParse(msg)
        w == Note(s0, Sink("write_msg", UpdateMsgType(result), AfiSafi(result)))
        s1 == IF Publishes(result, CONF.standalone)
              THEN Note(w, Sink("publish", "2", AfiSafi(result)))
              ELSE w
        s2 == [s1 EXCEPT !.msg_recv_stat.Updates = @ + 1]
    IN  fsm_update_received(s2)

\* BGP.notification_received
notification_received(s, error, suberror) ==
    LET s1 == [s EXCEPT !.msg_recv_stat.Notifications = @ + 1]
        s2 == Note(s1, Sink("write_msg", "3", "(0,0)"))
    IN  fsm_notification_received(s2, error, suberror)

\* BGP.keepalive_received
keepalive_received(s, msg) ==
    LET s1 == [s EXCEPT !.msg_recv_stat.Keepalives = @ + 1]
        p == KeepAliveParse(msg)
    IN  IF p.exc # "none"
        THEN [s |-> s1, exc |-> p.exc, sub |-> p.sub]
        ELSE LET s2 == IF CONF.write_keepalive
                       THEN Note(s1, Sink("write_msg", "4", "(0,0)"))
                       ELSE s1
             IN  [s |-> fsm_keep_alive_received(s2), exc |-> "none", sub |-> ""]

\* BGP.route_refresh_received: the message is logged, nothing else
route_refresh_received(s) == s

\* ---------------------------------------------------------- frame reader
\* len(buf) < bgp_cons.HDR_LEN
HeaderIncomplete(buf) == Len(buf) < HDR_LEN

\* a marker check that looks at the first 15 octets only
MarkerBadFirst15(buf) == Slice(buf, 0, 15) # SubSeq(Marker, 1, 15)

\* buf[:16] != 16 * b'\xff'
MarkerBad(buf) == Slice(buf, 0, 16) # Marker

\* a bounds check that also rejects a length of exactly HDR_LEN
BadLengthInclusive(length) == length <= HDR_LEN \/ length > MAX_LEN

\* length < bgp_cons.HDR_LEN or length > bgp_cons.MAX_LEN
BadLength(length) == length < HDR_LEN \/ length > MAX_LEN

\* a completeness check that is off by one octet
MessageIncompleteOffByOne(buf, length) == Len(buf) < length - 1

\* len(buf) < length
MessageIncomplete(buf, length) == Len(buf) < length

\* the length and type fields of struct.unpack('!16sHB', buf[:HDR_LEN])
HdrLength(buf) == Unpack2(buf[17], buf[18])
HdrType(buf) == buf[19]

\* an advance that drops everything that was buffered
AdvanceWholeBuffer(buf, length) == <<>>

\* self.receive_buffer = self.receive_buffer[length:]
Advance(buf, length) == SliceFrom(buf, length)

\* diagnostic data that holds the type code in one octet
BadTypeDataOneOctet(msg_type) == <<msg_type>>

\* struct.pack('!H', msg_type)
BadTypeData(msg_type) == Pack2(msg_type)

\* The dispatch of parse_buffer (its outer try block): the session after
\* it, and whether parse_buffer returned False from inside it.
Dispatch(s, msg_type, msg, length) ==
    IF msg_type = MSG_OPEN
    THEN LET o == open_received(Note(s, Call("open_received", length)), msg)
         IN  IF o.exc = "MessageHeaderError"
             THEN [s |-> fsm_header_error(o.s, o.sub, <<>>), returned |-> TRUE]
             ELSE IF o.exc = "OpenMessageError"
             THEN [s |-> fsm_open_message_error(o.s, o.sub), returned |-> TRUE]
             ELSE [s |-> o.s, returned |-> FALSE]
    ELSE IF msg_type = MSG_UPDATE
    THEN [s |-> update_received(Note(s, Call("update_received", length)), msg),
          returned |-> FALSE]
    ELSE IF msg_type = MSG_NOTIFICATION
    THEN LET p == NotificationParse(msg)
         IN  IF p.exc # "none"
             THEN [s |-> Note(s, Logged(p.exc)), returned |-> FALSE]
             ELSE [s |-> notification_received(
                             Note(s, Call("notification_received", length)),
                             p.error, p.suberror),
                   returned |-> FALSE]
    ELSE IF msg_type = MSG_KEEPALIVE
    THEN LET o == keepalive_received(Note(s, Call("keepalive_received", length)), msg)
         IN  IF o.exc = "MessageHeaderError"
             THEN [s |-> fsm_header_error(o.s, o.sub, <<>>), returned |-> TRUE]
             ELSE [s |-> o.s, returned |-> FALSE]
    ELSE IF msg_type = MSG_ROUTEREFRESH \/ msg_type = MSG_CISCOROUTEREFRESH
    THEN IF RouteRefreshParse(msg).exc # "none"
         THEN [s |-> Note(s, Logged(RouteRefreshParse(msg).exc)), returned |-> FALSE]
         ELSE [s |-> route_refresh_received(
                         Note(s, Call("route_refresh_received", length))),
               returned |-> FALSE]
    ELSE [s |-> fsm_header_error(s, ERR_MSG_HDR_BAD_MSG_TYPE, BadTypeData(msg_type)),
          returned |-> FALSE]

\* BGP.parse_buffer: the session after one call, and the value returned
parse_buffer(s) ==
    LET buf == s.receive_buffer
    IN  IF HeaderIncomplete(buf) THEN [s |-> s, ret |-> FALSE]
        ELSE IF MarkerBad(buf)
        THEN [s |-> fsm_header_error(s, ERR_MSG_HDR_CONN_NOT_SYNC, <<>>),
              ret |-> FALSE]
        ELSE LET length == HdrLength(buf)
                 msg_type == HdrType(buf)
                 s1 == IF BadLength(length)
                       THEN fsm_header_error(s, ERR_MSG_HDR_BAD_MSG_LEN, Pack2(length))
                       ELSE s
             IN  IF MessageIncomplete(buf, length) THEN [s |-> s1, ret |-> FALSE]
                 ELSE LET msg == Slice(buf, HDR_LEN, length)
                          d == Dispatch(s1, msg_type, msg, length)
                      IN  IF d.returned THEN [s |-> d.s, ret |-> FALSE]
                          ELSE [s |-> [d.s EXCEPT !.receive_buffer = Advance(@, length)],
                                ret |-> TRUE]

\* ------------------------------------------------------------- actions
\* The state after get_bgp_config and the construction of the first protocol
\* instance, the FSM configured with one of the hold times H, standalone and
\* message.write_keepalive both set to one of the values F.
InitFlags(F, H) ==
    /\ CONF \in {[standalone |-> f, write_keepalive |-> f, hold_time |-> h] :
                     f \in F, h \in H}
    /\ running_config = ConfiguredCapability
    /\ receive_buffer = <<>>
    /\ fourbytesas = FALSE
    /\ disconnected = FALSE
    /\ peer_id = <<>>
    /\ msg_sent_stat = ZeroStat
    /\ msg_recv_stat = ZeroStat
    /\ fsm = [state |-> "Connect", hold_time |-> CONF.hold_time, keep_alive_time |-> 0]
    /\ transport = [connected |-> TRUE, disconnecting |-> FALSE]
    /\ log = <<>>
    /\ wire = <<>>
    /\ pc = "new"
    /\ npeer = 0
    /\ nsessions = 1
    /\ sent = <<>>

\* standalone and message.write_keepalive have their defaults (config.py)
InitWith(H) == InitFlags({TRUE}, H)

Init == InitWith({180})

InitOpen == InitWith(LocalHoldTimes)

\* BGP.connectionMade: the FSM is told; whatever it raises is logged
ConnectionMade ==
    /\ pc = "new"
    /\ \E o \in fsm_connection_made(Cur) : Commit(o.s)
    /\ pc' = "idle"
    /\ UNCHANGED <<CONF, wire, npeer, nsessions, sent>>

\* The peer puts one more message, one of M, on the wire.
PeerSendFrom(M) ==
    /\ pc = "idle"
    /\ transport.connected
    /\ npeer < MaxMsgs
    /\ \E m \in M : wire' = wire \o m /\ sent' = Append(sent, m)
    /\ npeer' = npeer + 1
    /\ UNCHANGED <<CONF, running_config, receive_buffer, fourbytesas, disconnected,
                   peer_id, msg_sent_stat, msg_recv_stat, fsm, transport, log, pc,
                   nsessions>>

PeerSend == PeerSendFrom(PeerMessages)

PeerSendOpen == PeerSendFrom(OpenMessages)

\* BGP.dataReceived, up to its loop: a read delivers the next n bytes.
\* A transport told to lose the connection reads no more.
DataReceived ==
    /\ pc = "idle"
    /\ transport.connected /\ ~transport.disconnecting
    /\ \E n \in 1..Len(wire) :
           /\ receive_buffer' = receive_buffer \o SubSeq(wire, 1, n)
           /\ wire' = SubSeq(wire, n + 1, Len(wire))
    /\ pc' = "parsing"
    /\ UNCHANGED <<CONF, running_config, fourbytesas, disconnected, peer_id,
                   msg_sent_stat, msg_recv_stat, fsm, transport, log, npeer,
                   nsessions, sent>>

\* One iteration of 'while self.parse_buffer(): pass'
ParseBuffer ==
    /\ pc = "parsing"
    /\ Len(log) < MaxLog
    /\ LET o == parse_buffer(Cur)
       IN  /\ Commit(o.s)
           /\ pc' = IF o.ret THEN "parsing" ELSE "idle"
    /\ UNCHANGED <<CONF, wire, npeer, nsessions, sent>>

\* BGP.connectionLost
ConnectionLost ==
    /\ pc = "idle"
    /\ transport.connected
    /\ LET s1 == [Cur EXCEPT !.transport.connected = FALSE]
       IN  IF disconnected
           THEN Commit(Note(s1, Sink("connection_closed", "", "")))
           ELSE Commit(fsm_connection_failed(s1))
    /\ wire' = <<>>
    /\ sent' = <<>>
    /\ pc' = "lost"
    /\ UNCHANGED <<CONF, npeer, nsessions>>

\* The factory builds the protocol of the next connection (BGP.__init__);
\* the running configuration is the process-wide one and is not rebuilt.
NewSession ==
    /\ pc = "lost"
    /\ nsessions < MaxSessions
    /\ receive_buffer' = <<>>
    /\ fourbytesas' = FALSE
    /\ disconnected' = FALSE
    /\ peer_id' = <<>>
    /\ msg_sent_stat' = ZeroStat
    /\ msg_recv_stat' = ZeroStat
    /\ fsm' = [state |-> "Connect", hold_time |-> CONF.hold_time, keep_alive_time |-> 0]
    /\ transport' = [connected |-> TRUE, disconnecting |-> FALSE]
    /\ log' = <<>>
    /\ wire' = <<>>
    /\ pc' = "new"
    /\ nsessions' = nsessions + 1
    /\ UNCHANGED <<CONF, running_config, npeer, sent>>

Next ==
    \/ ConnectionMade
    \/ PeerSend
    \/ DataReceived
    \/ ParseBuffer
    \/ ConnectionLost
    \/ NewSession

Spec == Init /\ [][Next]_vars

NextOpen ==
    \/ ConnectionMade
    \/ PeerSendOpen
    \/ DataReceived
    \/ ParseBuffer
    \/ ConnectionLost
    \/ NewSession

SpecOpen == InitOpen /\ [][NextOpen]_vars

\* ---------------------------------------- the established-session actions
\* the flags at their defaults, or both switched off in the configuration
InitEst == InitFlags(BOOLEAN, {180})

\* The peer answers the local Open: its Open and its KeepAlive.
PeerHandshake ==
    /\ pc = "idle"
    /\ transport.connected
    /\ fsm.state = "OpenSent"
    /\ npeer = 0 /\ wire = <<>> /\ receive_buffer = <<>>
    /\ msg_recv_stat.Opens = 0
    /\ wire' = OpenMsg(VERSION, PeerAs, 90, SomeCaps) \o KeepAliveMsg
    /\ sent' = <<OpenMsg(VERSION, PeerAs, 90, SomeCaps), KeepAliveMsg>>
    /\ UNCHANGED <<CONF, running_config, receive_buffer, fourbytesas, disconnected,
                   peer_id, msg_sent_stat, msg_recv_stat, fsm, transport, log, pc,
                   npeer, nsessions>>

PeerSendEst == PeerSendFrom(EstMessages)

\* The application calls BGP.send_update; it does so in an established
\* session.
SendUpdate ==
    /\ pc = "idle"
    /\ transport.connected
    /\ fsm.state = "Established"
    /\ msg_sent_stat.Updates < MaxSends
    /\ Commit(send_update(Cur))
    /\ UNCHANGED <<CONF, wire, pc, npeer, nsessions, sent>>

NextEst ==
    \/ ConnectionMade
    \/ PeerHandshake
    \/ PeerSendEst
    \/ DataReceived
    \/ ParseBuffer
    \/ SendUpdate

SpecEst == InitEst /\ [][NextEst]_vars

\* ------------------------------------------- the internal-fault actions
PeerSendFault == PeerSendFrom(FaultMessages)

NextFault ==
    \/ ConnectionMade
    \/ PeerSendFault
    \/ DataReceived
    \/ ParseBuffer

SpecFault == Init /\ [][NextFault]_vars

\* ============================================================ properties
\* the log entries a step appends
NewEntries == SubSeq(log', Len(log) + 1, Len(log'))

Handlers ==
    {"open_received", "update_received", "notification_received",
     "keepalive_received", "route_refresh_received"}

\* e records that parse_buffer handed a message to a type handler
IsDispatch(e) == e.k = "call" /\ e.n \in Handlers

\* e records the event ev(suberror) delivered to the FSM
IsFsm(e, ev, suberror) == e.k = "fsm" /\ e.n = ev /\ e.a = suberror

\* the step is a call of parse_buffer that handed a message to a handler
StepDispatches == \E i \in 1..Len(NewEntries) : IsDispatch(NewEntries[i])

\* the first 16 octets of the buffer are all 0xFF
AllOnes == \A i \in 1..16 : receive_buffer[i] = 255

\* C1: a message is handed to a type handler only when the receive buffer
\* holds at least as many bytes as the header's length field declares.
C1_NoPartialDispatch ==
    [][StepDispatches =>
          /\ Len(receive_buffer) >= HDR_LEN
          /\ Len(receive_buffer) >= HdrLength(receive_buffer)
          /\ \A i \in 1..Len(NewEntries) :
                 IsDispatch(NewEntries[i]) =>
                     NewEntries[i].len = HdrLength(receive_buffer)]_vars

\* C1 witness: a whole Update (23 octets) was dispatched while the first
\* octets of the next message stay buffered, short of a header.
C1_Witness ==
    /\ pc = "idle"
    /\ \E i \in 1..Len(log) : IsDispatch(log[i]) /\ log[i].len = HDR_LEN + 4
    /\ Len(receive_buffer) \in 1..(HDR_LEN - 1)

\* C2: whenever parse_buffer hands a message to a handler, the receive
\* buffer is advanced by exactly that message's declared length, so that
\* nothing of a dispatched message is buffered when dataReceived returns.
C2_AdvancedPastDispatched ==
    [][StepDispatches =>
          receive_buffer' = SliceFrom(receive_buffer, HdrLength(receive_buffer))]_vars

\* C3: every iteration of the loop of dataReceived in which parse_buffer
\* returns True has strictly shortened the receive buffer (so the loop ends).
C3_EachIterationShortens ==
    [][(pc = "parsing" /\ pc' = "parsing") =>
          Len(receive_buffer') < Len(receive_buffer)]_vars

\* C4: when the buffer holds at least 19 bytes and its first 16 bytes are
\* not all 0xFF, parse_buffer signals header_error(connection not
\* synchronised) to the FSM, dispatches nothing, keeps the buffer and
\* returns False.
C4_BadMarkerStops ==
    [][(pc = "parsing" /\ Len(receive_buffer) >= HDR_LEN /\ ~AllOnes) =>
          /\ ~StepDispatches
          /\ Len(NewEntries) > 0
          /\ IsFsm(NewEntries[1], "header_error", ERR_MSG_HDR_CONN_NOT_SYNC)
          /\ \A i \in 2..Len(NewEntries) : NewEntries[i].k # "fsm"
          /\ receive_buffer' = receive_buffer
          /\ pc' = "idle"]_vars

\* C4 witness: the header error has been signalled for a 19-byte buffer
\* whose marker is broken, and dataReceived has returned.
C4_Witness ==
    /\ pc = "idle"
    /\ Len(receive_buffer) >= HDR_LEN
    /\ ~AllOnes
    /\ \E i \in 1..Len(log) : IsFsm(log[i], "header_error", ERR_MSG_HDR_CONN_NOT_SYNC)

\* e is header_error(bad message length) carrying a length as its data
IsBadLengthError(e) ==
    IsFsm(e, "header_error", ERR_MSG_HDR_BAD_MSG_LEN) /\ e.d # <<>>

C6_DispatchedLengthInBounds ==
    \A i \in 1..Len(log) : IsDispatch(log[i]) => (19 <= log[i].len /\ log[i].len <= 4096)

\* e records a call of capability_negotiate
IsNegotiate(e) == e.k = "call" /\ e.n = "capability_negotiate"

\* e records that open_received passed the AS check and recorded the remote
\* capability set (the archival call that follows the recording)
IsOpenAccepted(e) == e.k = "write_msg" /\ e.n = "1"

StepNegotiates == \E i \in 1..Len(NewEntries) : IsNegotiate(NewEntries[i])

StepAcceptsOpen == \E i \in 1..Len(NewEntries) : IsOpenAccepted(NewEntries[i])

\* C7: after capability_negotiate the local set holds only keys it held
\* before and only keys of the remote set. Stated for the negotiations the
\* code's guard lets through, those with a recorded (non-empty) remote set.
C7_NegotiatedIsSubset ==
    [][(StepNegotiates /\ running_config.remote # {}) =>
          /\ running_config'.local \subseteq running_config.local
          /\ running_config'.local \subseteq running_config.remote]_vars

\* C8: in a session capability_negotiate runs only after the peer's Open
\* has been received and its capability set recorded, and once the Open has
\* been handled it has run exactly once.
C8_NegotiatedOnceOnOpen ==
    LET neg == {i \in 1..Len(log) : IsNegotiate(log[i])}
        acc == {i \in 1..Len(log) : IsOpenAccepted(log[i])}
    IN  /\ \A i \in neg : \E j \in acc : j < i
        /\ (pc = "idle" /\ acc # {}) => Cardinality(neg) = 1

\* C9: every new session starts from the configured local capability set
\* and an empty remote set.
C9_SessionStartsFromConfigured ==
    pc = "new" => running_config = ConfiguredCapability

\* C10: an accepted Open sets the hold time to min(local, remote); a
\* negotiated value of 1 or 2 is signalled as open_message_error
\* (unacceptable hold time); in OpenConfirm and Established the hold time
\* is 0 or at least 3.
C10_HoldTimeNegotiated ==
    [][/\ StepAcceptsOpen =>
              LET remote == receive_buffer[HDR_LEN + 4] * 256 + receive_buffer[HDR_LEN + 5]
                  h == IF fsm.hold_time < remote THEN fsm.hold_time ELSE remote
              IN  /\ fsm'.hold_time = h
                  /\ h \in {1, 2} =>
                         \E i \in 1..Len(NewEntries) :
                             IsFsm(NewEntries[i], "open_message_error",
                                   ERR_MSG_OPEN_UNACCPT_HOLD_TIME)
       /\ fsm'.state \in {"OpenConfirm", "Established"} =>
              (fsm'.hold_time = 0 \/ fsm'.hold_time >= 3)]_vars

\* C10 witness: an Open with hold time 2 was rejected, the negotiated value
\* being 2, and the session is in Idle.
C10_Witness ==
    /\ fsm.hold_time = 2
    /\ fsm.state = "Idle"
    /\ \E i \in 1..Len(log) :
           IsFsm(log[i], "open_message_error", ERR_MSG_OPEN_UNACCPT_HOLD_TIME)

\* e records a message of the given type written to the transport
IsWrite(e, name) == e.k = "write" /\ e.n = name

\* the step signals open_message_error(unacceptable hold time) to the FSM
StepRejectsHoldTime ==
    \E i \in 1..Len(NewEntries) :
        IsFsm(NewEntries[i], "open_message_error", ERR_MSG_OPEN_UNACCPT_HOLD_TIME)

\* C11: when the peer's Open makes the negotiated hold time 1 or 2, a
\* Notification(unacceptable hold time) is sent and the session ends in
\* Idle, and the Open is not processed any further: no Open-received event
\* reaches the FSM, no KeepAlive is sent, OpenConfirm is not entered.
C11_UnacceptableHoldTimeEndsOpen ==
    [][StepRejectsHoldTime =>
          /\ \E i \in 1..Len(NewEntries) :
                 /\ IsWrite(NewEntries[i], "Notification")
                 /\ NewEntries[i].a = ERR_MSG_OPEN_UNACCPT_HOLD_TIME
          /\ fsm'.state = "Idle"
          /\ \A i \in 1..Len(NewEntries) :
                 /\ ~IsFsm(NewEntries[i], "open_received", "")
                 /\ ~IsWrite(NewEntries[i], "KeepAlive")]_vars

\* C12: once a valid Open has been processed (the session is in OpenConfirm
\* or Established) the keepalive interval k is a third of the negotiated
\* hold time h exactly: 3 * k = h.
C12_KeepAliveIsExactThird ==
    fsm.state \in {"OpenConfirm", "Established"} =>
        3 * fsm.keep_alive_time = fsm.hold_time

\* the buffer starts with a complete, well-formed version-4 Open
OpenAtHead ==
    /\ Len(receive_buffer) >= HDR_LEN + 10
    /\ AllOnes
    /\ HdrType(receive_buffer) = MSG_OPEN
    /\ HdrLength(receive_buffer) >= HDR_LEN + 10
    /\ HdrLength(receive_buffer) <= MAX_LEN
    /\ Len(receive_buffer) >= HdrLength(receive_buffer)
    /\ receive_buffer[HDR_LEN + 1] = 4
    /\ receive_buffer[HDR_LEN + 10] = HdrLength(receive_buffer) - HDR_LEN - 10

\* the AS number of the Open at the head of the buffer
OpenAtHeadAs == receive_buffer[HDR_LEN + 2] * 256 + receive_buffer[HDR_LEN + 3]

\* C13: an Open whose AS differs from the configured peer AS is signalled
\* to the FSM as open_message_error(bad peer AS) (Notification with that
\* sub-error, session to Idle) and changes neither the remote capability
\* set, the four-octet-AS flag, the peer id nor the hold time; the FSM
\* gets no Open-received event for it.
C13_BadPeerAsRejected ==
    [][(pc = "parsing" /\ OpenAtHead /\ OpenAtHeadAs # 100) =>
          /\ \E i \in 1..Len(NewEntries) :
                 IsFsm(NewEntries[i], "open_message_error", ERR_MSG_OPEN_BAD_PEER_AS)
          /\ \E i \in 1..Len(NewEntries) :
                 /\ IsWrite(NewEntries[i], "Notification")
                 /\ NewEntries[i].a = ERR_MSG_OPEN_BAD_PEER_AS
          /\ fsm'.state = "Idle"
          /\ running_config' = running_config
          /\ fourbytesas' = fourbytesas
          /\ peer_id' = peer_id
          /\ fsm'.hold_time = fsm.hold_time
          /\ fsm'.keep_alive_time = fsm.keep_alive_time
          /\ \A i \in 1..Len(NewEntries) :
                 ~IsFsm(NewEntries[i], "open_received", "")]_vars

\* C13 witness: an Open of AS 101 advertising four_bytes_as was rejected in
\* a session that had accepted no Open: the flag is still false, no peer id
\* and no remote capability is recorded.
C13_Witness ==
    /\ pc = "idle"
    /\ OpenAtHead /\ OpenAtHeadAs = 101
    /\ \E i \in 1..Len(log) :
           IsFsm(log[i], "open_message_error", ERR_MSG_OPEN_BAD_PEER_AS)
    /\ fsm.state = "Idle"
    /\ ~fourbytesas /\ peer_id = <<>> /\ running_config.remote = {}

\* e records a codec call that was given the four-octet-AS flag
IsCodec(e) == e.k = "codec"

\* the Open at the head of the buffer advertises four_bytes_as (code 65)
OpenAtHeadAdvertisesAs4 ==
    \E j \in (HDR_LEN + 11)..HdrLength(receive_buffer) : receive_buffer[j] = 65

\* the step handles an Open that passes the AS check and advertises
\* four_bytes_as
StepAcceptsAs4 ==
    pc = "parsing" /\ OpenAtHead /\ OpenAtHeadAs = 100 /\ OpenAtHeadAdvertisesAs4

\* C14: the four-octet-AS flag is false when the session is created,
\* becomes true exactly when an Open that passes the AS check advertises
\* four_bytes_as, stays true for the rest of the connection whatever
\* arrives, and every Update parsed or constructed while it is true is
\* given the 4-byte width.
C14_FourOctetAsFlag ==
    /\ (pc = "new" => ~fourbytesas)
    /\ [][/\ pc' = "new" => ~fourbytesas'
          /\ StepAcceptsAs4 => fourbytesas'
          /\ (~fourbytesas /\ fourbytesas') => StepAcceptsAs4
          /\ (fourbytesas /\ pc' # "new") => fourbytesas'
          /\ \A i \in 1..Len(NewEntries) :
                 IsCodec(NewEntries[i]) =>
                     NewEntries[i].a = IF fourbytesas THEN "as4" ELSE "as2"]_vars

\* C14 witness: the flag was set by the first Open, a further Open without
\* the capability was accepted, and an Update was parsed and another one
\* constructed after that, both with the 4-byte width.
C14_Witness ==
    /\ fourbytesas
    /\ msg_recv_stat.Opens = 2
    /\ "four_bytes_as" \notin running_config.remote
    /\ \E i, j, k \in 1..Len(log) :
           /\ i < j /\ i < k
           /\ IsOpenAccepted(log[i])
           /\ \A m \in (i + 1)..Len(log) : ~IsOpenAccepted(log[m])
           /\ IsCodec(log[j]) /\ log[j].n = "Update.parse" /\ log[j].a = "as4"
           /\ IsCodec(log[k]) /\ log[k].n = "Update.construct" /\ log[k].a = "as4"

\* e records what connectionLost did: the FSM told, or only the factory
IsLostReport(e) ==
    IsFsm(e, "connection_failed", "") \/ e.k = "connection_closed"

\* C15: connectionLost tells the FSM that the connection failed (moving it
\* to Idle) unless closeConnection had closed the transport, in which case
\* it only notifies the factory; either way exactly once per lost
\* connection, and never while the connection is up.
C15_ConnectionFailedUnlessSelfClosed ==
    LET reports == {i \in 1..Len(log) : IsLostReport(log[i])}
    IN  IF pc = "lost"
        THEN /\ reports = {Len(log)}
             /\ IF transport.disconnecting
                THEN log[Len(log)].k = "connection_closed"
                ELSE /\ IsFsm(log[Len(log)], "connection_failed", "")
                     /\ fsm.state = "Idle"
        ELSE reports = {}

\* C15 witness: the session closed the transport after an Open error, the
\* connection was then lost and only the factory was notified.
C15_Witness ==
    /\ pc = "lost"
    /\ transport.disconnecting
    /\ log[Len(log)].k = "connection_closed"
    /\ \E i \in 1..Len(log) : log[i].k = "fsm" /\ log[i].n = "open_message_error"

\* the number of messages called name that the log shows written
Written(name) == Cardinality({i \in 1..Len(log) : IsWrite(log[i], name)})

\* the number of messages the log shows handed to the handler called name
Handled(name) ==
    Cardinality({i \in 1..Len(log) : log[i].k = "call" /\ log[i].n = name})

\* C16: every sent counter equals the number of messages of its type
\* written to the transport, and every received counter the number of
\* messages of its type received from the peer.
C16_CountersAreExact ==
    /\ msg_sent_stat.Opens = Written("Open")
    /\ msg_sent_stat.Updates = Written("Update")
    /\ msg_sent_stat.Notifications = Written("Notification")
    /\ msg_sent_stat.Keepalives = Written("KeepAlive")
    /\ msg_sent_stat.RouteRefresh = Written("RouteRefresh")
    /\ msg_recv_stat.Opens = Handled("open_received")
    /\ msg_recv_stat.Updates = Handled("update_received")
    /\ msg_recv_stat.Notifications = Handled("notification_received")
    /\ msg_recv_stat.Keepalives = Handled("keepalive_received")
    /\ msg_recv_stat.RouteRefresh = Handled("route_refresh_received")

\* the handlers of the four message types that are archived
ArchivedHandlers ==
    {"open_received", "update_received", "notification_received",
     "keepalive_received"}

\* C17: every Open, Update, Notification and KeepAlive handed to its
\* handler is given to the archival sink write_msg exactly once, whether
\* or not the handler goes on to reject it.
C17_ArchivedOncePerMessage ==
    [][(\E i \in 1..Len(NewEntries) :
            NewEntries[i].k = "call" /\ NewEntries[i].n \in ArchivedHandlers) =>
          Cardinality({i \in 1..Len(NewEntries) : NewEntries[i].k = "write_msg"}) = 1]_vars

\* e records a hand-off to the external bus
IsPublish(e) == e.k = "publish"

\* the step hands an Update to update_received
StepHandlesUpdate ==
    \E i \in 1..Len(NewEntries) :
        NewEntries[i].k = "call" /\ NewEntries[i].n = "update_received"

\* the body of the message at the head of the buffer
BodyAtHead == Slice(receive_buffer, HDR_LEN, HdrLength(receive_buffer))

\* C18: a received Update is published to the external bus, once, if and
\* only if its decode reports no sub-error and the system is not in
\* standalone mode; nothing else is ever published.
C18_PublishedIffCleanAndNotStandalone ==
    [][LET published ==
               Cardinality({i \in 1..Len(NewEntries) : IsPublish(NewEntries[i])})
       IN  IF StepHandlesUpdate
           THEN published =
                    IF ~UpdateParse(BodyAtHead).sub_error /\ ~CONF.standalone
                    THEN 1 ELSE 0
           ELSE published = 0]_vars

\* C18 witness: not in standalone mode, an Update with a sub-error and a
\* clean Update were received; only one of them was published.
C18_Witness ==
    /\ ~CONF.standalone
    /\ msg_recv_stat.Updates = 2
    /\ \E i \in 1..Len(log) : log[i].k = "write_msg" /\ log[i].n = "6"
    /\ Cardinality({i \in 1..Len(log) : IsPublish(log[i])}) = 1

\* the buffer starts with a complete Update within the length bounds
UpdateAtHead ==
    /\ Len(receive_buffer) >= HDR_LEN
    /\ AllOnes
    /\ HdrType(receive_buffer) = MSG_UPDATE
    /\ HdrLength(receive_buffer) >= 19
    /\ HdrLength(receive_buffer) <= 4096
    /\ Len(receive_buffer) >= HdrLength(receive_buffer)

\* C19: in Established, an Update whose decode reports a sub-error is
\* archived as a partial result (type 6), counted as received and
\* delivered to the FSM as an ordinary Update-received event; no error event
\* and no Notification follow, the state stays Established, the message is
\* consumed and the draining loop goes on.
C19_SubErrorUpdateKeepsSession ==
    [][(/\ pc = "parsing"
        /\ fsm.state = "Established"
        /\ UpdateAtHead
        /\ UpdateParse(BodyAtHead).sub_error) =>
          /\ Cardinality({i \in 1..Len(NewEntries) :
                              NewEntries[i].k = "write_msg"}) = 1
          /\ \E i \in 1..Len(NewEntries) :
                 NewEntries[i].k = "write_msg" /\ NewEntries[i].n = "6"
          /\ msg_recv_stat'.Updates = msg_recv_stat.Updates + 1
          /\ \A i \in 1..Len(NewEntries) :
                 /\ NewEntries[i].k = "fsm" => IsFsm(NewEntries[i], "update_received", "")
                 /\ ~IsWrite(NewEntries[i], "Notification")
          /\ \E i \in 1..Len(NewEntries) : IsFsm(NewEntries[i], "update_received", "")
          /\ fsm'.state = "Established"
          /\ ~transport'.disconnecting
          /\ receive_buffer' = SliceFrom(receive_buffer, HdrLength(receive_buffer))
          /\ pc' = "parsing"]_vars

\* C19 witness: an established session has just handled an Update with a
\* sub-error and the loop is about to go on with the message behind it.
C19_Witness ==
    /\ pc = "parsing"
    /\ fsm.state = "Established"
    /\ Len(log) >= 2
    /\ IsFsm(log[Len(log)], "update_received", "")
    /\ log[Len(log) - 1].k = "write_msg" /\ log[Len(log) - 1].n = "6"
    /\ Len(receive_buffer) >= HDR_LEN

\* the type codes parse_buffer has a branch for
KnownTypes == {1, 2, 3, 4, 5, 128}

\* the buffer starts with a complete message, its length within the
\* bounds, whose type code is not a known one
UnknownTypeAtHead ==
    /\ Len(receive_buffer) >= HDR_LEN
    /\ AllOnes
    /\ HdrLength(receive_buffer) >= 19
    /\ HdrLength(receive_buffer) <= 4096
    /\ Len(receive_buffer) >= HdrLength(receive_buffer)
    /\ HdrType(receive_buffer) \notin KnownTypes

\* C20: a complete message of unknown type produces header_error(bad
\* message type) with the type code (two octets) as data, is handed to no
\* handler, is removed from the buffer, and the draining loop goes on.
C20_UnknownTypeSkipped ==
    [][(pc = "parsing" /\ UnknownTypeAtHead) =>
          /\ Len(NewEntries) > 0
          /\ IsFsm(NewEntries[1], "header_error", ERR_MSG_HDR_BAD_MSG_TYPE)
          /\ NewEntries[1].d = <<0, HdrType(receive_buffer)>>
          /\ \A i \in 2..Len(NewEntries) : NewEntries[i].k # "fsm"
          /\ ~StepDispatches
          /\ receive_buffer' = SliceFrom(receive_buffer, HdrLength(receive_buffer))
          /\ pc' = "parsing"]_vars

\* C20 witness: the error was signalled for type code 9, and the message
\* behind it was handed to its handler straight afterwards.
C20_Witness ==
    \E i \in 1..Len(log) :
        /\ IsFsm(log[i], "header_error", ERR_MSG_HDR_BAD_MSG_TYPE)
        /\ log[i].d = <<0, 9>>
        /\ i + 2 <= Len(log)
        /\ IsWrite(log[i + 1], "Notification")
        /\ IsDispatch(log[i + 2])

\* a is an initial part of b
IsPrefix(a, b) == Len(a) <= Len(b) /\ a = SubSeq(b, 1, Len(a))

\* the handler parse_buffer has for a type code
HandlerOf(type) ==
    CASE type = 1 -> "open_received"
      [] type = 2 -> "update_received"
      [] type = 3 -> "notification_received"
      [] type = 4 -> "keepalive_received"
      [] OTHER -> "route_refresh_received"

\* the event the handler of an accepted message of this type gives the FSM
EventOf(type) ==
    CASE type = 1 -> "open_received"
      [] type = 2 -> "update_received"
      [] type = 3 -> "notification_received"
      [] OTHER -> "keep_alive_received"

\* m is a message whose handler has an event for the FSM
HasEvent(m) == m[HDR_LEN] \in {1, 2, 3, 4}

\* e is an event delivered to the FSM on behalf of a received message
IsMessageEvent(e) == e.k = "fsm" /\ e.n # "connection_made"

\* the handler calls of the session, in the order they were made
CallsMade ==
    LET calls == SelectSeq(log, IsDispatch)
    IN  [i \in 1..Len(calls) |-> <<calls[i].n, calls[i].len>>]

\* the events the FSM got for received messages, in order
EventsDelivered ==
    LET events == SelectSeq(log, IsMessageEvent)
    IN  [i \in 1..Len(events) |-> events[i].n]

\* what the messages the peer sent call for, in the order of the stream
CallsOfStream == [i \in 1..Len(sent) |-> <<HandlerOf(sent[i][HDR_LEN]), Len(sent[i])>>]

EventsOfStream ==
    LET with == SelectSeq(sent, HasEvent)
    IN  [i \in 1..Len(with) |-> EventOf(with[i][HDR_LEN])]

\* C21: the handler calls and the FSM events follow the order of the
\* messages in the stream (at any moment they are an initial part of what
\* the stream calls for), and once every byte has been delivered and
\* dataReceived has returned they are exactly what the stream calls for,
\* however the bytes were split into reads.
C21_ArrivalOrderWhateverTheSplit ==
    /\ IsPrefix(CallsMade, CallsOfStream)
    /\ IsPrefix(EventsDelivered, EventsOfStream)
    /\ (pc = "idle" /\ wire = <<>>) =>
           /\ CallsMade = CallsOfStream
           /\ EventsDelivered = EventsOfStream

\* C21 witness: the Open, the KeepAlive and two further messages of
\* different kinds were delivered, and each has been handled in its turn.
C21_Witness ==
    /\ pc = "idle" /\ wire = <<>> /\ receive_buffer = <<>>
    /\ Len(sent) = 4
    /\ Len(CallsMade) = 4
    /\ sent[3] # sent[4]

\* the step catches an exception that is neither a header nor an Open error
StepFaults ==
    \E i \in 1..Len(NewEntries) : NewEntries[i].k = "log_error"

\* C22: an unexpected exception raised while a received message is
\* handled is logged and ends the session: the FSM is forced to Idle and
\* the rest of the buffer is not processed.
C22_FaultEndsSession ==
    [][StepFaults => (fsm'.state = "Idle" /\ pc' = "idle")]_vars

\* a declared length within the bounds of a BGP message
InBounds(length) == 19 <= length /\ length <= 4096

\* the calls of the handler h for messages of in-bounds length
CallsOf(h) ==
    {i \in 1..Len(log) :
         log[i].k = "call" /\ log[i].n = h /\ InBounds(log[i].len)}

\* the messages of in-bounds length the peer sent that belong to handler h
SentFor(h) ==
    {i \in 1..Len(sent) :
         /\ sent[i][HDR_LEN] \in KnownTypes
         /\ HandlerOf(sent[i][HDR_LEN]) = h
         /\ InBounds(Unpack2(sent[i][17], sent[i][18]))}

\* C23: over the whole session a message is handed to its handler at most
\* once, whatever the outcome of handling it: no handler has been called
\* more often than the peer has sent messages of its type.
C23_DispatchedAtMostOnce ==
    pc # "lost" =>
        \A h \in Handlers : Cardinality(CallsOf(h)) <= Cardinality(SentFor(h))

====
